---- MODULE Spec2Model ----
(***************************************************************************)
(* The two annotation pipelines of rss-ai-category as one state machine:   *)
(*   a.py            analyze_and_categorize_data (in-memory list, bare      *)
(*                   JSON array rewritten after every success)              *)
(*   ai_category.py  main + determine_category + save_categorized_articles  *)
(*                   (read-append-rewrite of {"articles": [...]})           *)
(* Both write data/categorized_articles.json, modelled by `file`.           *)
(* The environment chooses the feed, each classifier outcome, whether a     *)
(* write succeeds, and when the operator interrupts the process.            *)
(***************************************************************************)
EXTENDS Integers, Sequences, FiniteSets, TLC

\* ---- bounds of the model ------------------------------------------------
MaxRuns == 2          \* runs of either script in one behaviour
MaxCand == 2          \* length of the fetched article list
MaxCfgRetries == 2    \* largest optimization.max_retries explored (config.yaml)
MaxDelay == 2         \* largest optimization.retry_delay explored (config.yaml)

\* ---- program constants --------------------------------------------------
max_retries == 3      \* a.py line 39
retry_delay == 5      \* a.py line 40, seconds
max_backoff_default == 30  \* ai_category.py line 159

Titles == {"A", "B"}
Categories == {"Technology", "Business"}

\* An exception raised by the classifier call, reduced to what the two
\* scripts read from str(e): a.py looks for "429", ai_category.py for
\* "rate limit".  A rate-limit response carries both, any other error none.
RateLimitError == [has429 |-> TRUE, hasRateLimit |-> TRUE]
OtherError == [has429 |-> FALSE, hasRateLimit |-> FALSE]
Errors == {RateLimitError, OtherError}

Feeds == UNION {[1..n -> Titles] : n \in 0..MaxCand}

\* The optimization section of config.yaml as determine_category reads it
\* (ai_category.py 156-162); max_backoff is 30 when the key is absent.
BackoffCfgs ==
    [exponential_backoff : BOOLEAN,
     retry_delay : 1..MaxDelay,
     max_backoff : (1..MaxDelay) \cup {max_backoff_default}]

\* A config.yaml that sets retry_delay and leaves the optional keys out.
DefaultBackoff ==
    [exponential_backoff |-> FALSE, retry_delay |-> 1,
     max_backoff |-> max_backoff_default]

VARIABLES
    prog,              \* script of the current/last run: "a", "main", "none"
    pc,                \* position of the running script, "idle" between runs
    status,            \* how the last run ended
    runs,              \* runs started so far
    cfg_max_retries,   \* config['optimization']['max_retries']
    cfg_backoff,       \* config['optimization']: exponential_backoff, retry_delay, max_backoff
    has_api_key,       \* os.getenv("MISTRAL_API_KEY") is set
    overBudget,        \* the run has lasted longer than the total time budget
    data,              \* a.py data / main articles[:limit], as titles
    idx,               \* 1-based index of the entry the for loop is at
    retry_count,       \* a.py local / determine_category parameter
    categorized_data,  \* a.py in-memory list
    pending,           \* main: the `articles` list save_categorized_articles will dump
    file,              \* data/categorized_articles.json: [shape, articles]
    \* history variables (observations, never read by the scripts)
    results,           \* outcomes of the classifier calls made for the current entry
    delays,            \* backoff sleeps started for the current entry
    slept,             \* the delay of each of them, in order
    outcomes,          \* terminal state of every entry the current run finished
    classified,        \* records successfully classified in the current run
    snap,              \* file and categorized_data when the current entry began
    preWrite,          \* file before the write in progress opened it
    fileAtStart        \* the file as it was when the current run began

vars == <<prog, pc, status, runs, cfg_max_retries, cfg_backoff, has_api_key,
          overBudget, data, idx, retry_count, categorized_data, pending, file,
          results, delays, slept, outcomes, classified, snap, preWrite,
          fileAtStart>>

\* What is fixed for a run once it has started, and the wall clock.
env == <<cfg_backoff, has_api_key, overBudget>>

hist == <<results, delays, slept, outcomes, classified, snap, preWrite,
          fileAtStart>>

\* ---- helpers ------------------------------------------------------------
Range(s) == {s[i] : i \in 1..Len(s)}

Last(s) == s[Len(s)]

TitlesOf(s) == {s[i].original_title : i \in 1..Len(s)}

IsPrefix(s, t) == Len(s) <= Len(t) /\ \A i \in 1..Len(s) : s[i] = t[i]

NoFile == [shape |-> "none", articles |-> <<>>]

\* open(path, 'w') has truncated the file and json.dump has not completed:
\* the file exists and is not a JSON document.
Truncated == [shape |-> "partial", articles |-> <<>>]

\* categorized_entry (a.py 70-71) / categorized_article (ai_category.py 225-233)
Entry(title, category) == [original_title |-> title, category |-> category]

\* Retrying whatever the exception says.
IsRateLimitA_Any(e) == TRUE

\* a.py line 82
IsRateLimitA(e) == e.has429

\* The retry ceiling tested with <= instead of <.
ShouldRetryMain_OffByOne(e, rc) == e.hasRateLimit /\ rc <= cfg_max_retries

\* ai_category.py line 154
ShouldRetryMain(e, rc) == e.hasRateLimit /\ rc < cfg_max_retries

\* ai_category.py 176-179: the list that will be dumped, or "raise"
\* when json.load / existing_data.get fails.
CanAppend == file.shape \in {"none", "object"}

Appended(new) == IF file.shape = "object" THEN file.articles \o new ELSE new

Init ==
    /\ prog = "none"
    /\ pc = "idle"
    /\ status = "none"
    /\ runs = 0
    /\ cfg_max_retries = 0
    /\ cfg_backoff = DefaultBackoff
    /\ has_api_key = TRUE
    /\ overBudget = FALSE
    /\ slept = <<>>
    /\ data = <<>>
    /\ idx = 0
    /\ retry_count = 0
    /\ categorized_data = <<>>
    /\ pending = <<>>
    /\ file = NoFile
    /\ results = <<>>
    /\ delays = 0
    /\ outcomes = <<>>
    /\ classified = <<>>
    /\ snap = [file |-> NoFile, mem |-> <<>>]
    /\ preWrite = NoFile
    /\ fileAtStart = NoFile

\* ---- starting a run -----------------------------------------------------
\* a.py 8-40.  requests.get or response.json() raising (fetched = FALSE), or
\* data[0] on an empty list (line 26), ends the process before the loop.
\* Line 10 hands os.getenv('MISTRAL_API_KEY') to Mistral() as it is: with the
\* variable unset (key = FALSE) the client is built with api_key = None and
\* the script goes on.
StartA(feed, fetched, key) ==
    /\ pc = "idle"
    /\ runs < MaxRuns
    /\ runs' = runs + 1
    /\ prog' = "a"
    /\ IF fetched /\ feed # <<>>
       THEN /\ pc' = "for"
            /\ status' = "running"
            /\ data' = feed
            /\ idx' = 0
            /\ retry_count' = 0
            /\ categorized_data' = <<>>
            /\ pending' = <<>>
            /\ outcomes' = <<>>
            /\ classified' = <<>>
            /\ fileAtStart' = file
            /\ results' = <<>>
            /\ delays' = 0
            /\ snap' = [file |-> file, mem |-> <<>>]
            /\ preWrite' = file
            /\ slept' = <<>>
            /\ has_api_key' = key
            /\ UNCHANGED <<cfg_max_retries, cfg_backoff, file>>
       ELSE /\ status' = "aborted"
            /\ UNCHANGED <<pc, cfg_max_retries, cfg_backoff, has_api_key, data,
                           idx, retry_count, categorized_data, pending, file>>
            /\ UNCHANGED hist
    /\ overBudget' = FALSE

\* ai_category.py 191-207, with config.yaml giving optimization.max_retries =
\* retries, the backoff keys of `backoff` and articles.limit = limit.  A missing
\* MISTRAL_API_KEY raises ValueError at 197-200; load_articles re-raises on a
\* failed fetch; the outer handler (243-245) re-raises either: the process
\* ends before the loop.
StartMain(feed, fetched, limit, retries, backoff, key) ==
    /\ pc = "idle"
    /\ runs < MaxRuns
    /\ runs' = runs + 1
    /\ prog' = "main"
    /\ IF fetched /\ key
       THEN /\ pc' = "for"
            /\ status' = "running"
            /\ data' = SubSeq(feed, 1, IF limit < Len(feed) THEN limit ELSE Len(feed))
            /\ idx' = 0
            /\ retry_count' = 0
            /\ categorized_data' = <<>>
            /\ pending' = <<>>
            /\ outcomes' = <<>>
            /\ classified' = <<>>
            /\ fileAtStart' = file
            /\ results' = <<>>
            /\ delays' = 0
            /\ snap' = [file |-> file, mem |-> <<>>]
            /\ preWrite' = file
            /\ slept' = <<>>
            /\ cfg_max_retries' = retries
            /\ cfg_backoff' = backoff
            /\ has_api_key' = key
            /\ file' = file
       ELSE /\ status' = "aborted"
            /\ UNCHANGED <<pc, cfg_max_retries, cfg_backoff, has_api_key, data,
                           idx, retry_count, categorized_data, pending, file>>
            /\ UNCHANGED hist
    /\ overBudget' = FALSE

\* ---- the for loop -------------------------------------------------------
\* a.py 42-43 and 91-94 / ai_category.py 207-216 and 241.
\* a.py enters the while loop only when retry_count < max_retries; main
\* calls determine_category with the default retry_count = 0 and sleeps
\* request_delay first for every article but the first.
ForNext ==
    /\ pc = "for"
    /\ IF idx < Len(data)
       THEN /\ idx' = idx + 1
            /\ results' = <<>>
            /\ delays' = 0
            /\ slept' = <<>>
            /\ snap' = [file |-> file, mem |-> categorized_data]
            /\ status' = status
            /\ IF prog = "a"
               THEN IF retry_count < max_retries
                    THEN /\ pc' = "call"
                         /\ UNCHANGED <<retry_count, outcomes>>
                    ELSE /\ pc' = "for"
                         /\ retry_count' = 0
                         /\ outcomes' = Append(outcomes, "failed_retries")
               ELSE /\ pc' = IF idx' > 1 THEN "wait" ELSE "call"
                    /\ retry_count' = 0
                    /\ outcomes' = outcomes
       ELSE /\ pc' = "done"
            /\ status' = "completed"
            /\ UNCHANGED <<idx, retry_count, results, delays, slept, outcomes,
                           snap>>
    /\ UNCHANGED <<prog, runs, cfg_max_retries, data, categorized_data,
                   pending, file, classified, preWrite, fileAtStart>>
    /\ UNCHANGED env

\* ai_category.py 216-219: time.sleep(request_delay) returns.
RequestDelay ==
    /\ pc = "wait"
    /\ pc' = "call"
    /\ UNCHANGED <<prog, status, runs, cfg_max_retries, data, idx, retry_count,
                   categorized_data, pending, file>>
    /\ UNCHANGED hist
    /\ UNCHANGED env

\* ---- the classifier call ------------------------------------------------
\* The recursive call made without `return`: a retried call yields None.
ReturnedCategory_Dropped(c, rc) == IF rc = 0 THEN c ELSE "None"

\* What determine_category hands back to main for a successful call made at
\* recursion depth rc: line 152 returns it, line 166 returns it unchanged
\* through every enclosing frame.
ReturnedCategory(c, rc) == c

RECURSIVE Pow2(_)
Pow2(n) == IF n = 0 THEN 1 ELSE 2 * Pow2(n - 1)

Min(a, b) == IF a < b THEN a ELSE b

\* The exponent taken from the count after the increment.
BackoffDelay_NextCount ==
    IF prog = "a"
    THEN retry_delay
    ELSE IF cfg_backoff.exponential_backoff
         THEN Min(cfg_backoff.retry_delay * Pow2(retry_count + 1),
                  cfg_backoff.max_backoff)
         ELSE cfg_backoff.retry_delay

\* The seconds the handler is about to sleep.  a.py 85: retry_delay.
\* ai_category.py 156-162: min(retry_delay * 2 ** retry_count, max_backoff)
\* with exponential_backoff on, retry_delay otherwise.
BackoffDelay ==
    IF prog = "a"
    THEN retry_delay
    ELSE IF cfg_backoff.exponential_backoff
         THEN Min(cfg_backoff.retry_delay * Pow2(retry_count),
                  cfg_backoff.max_backoff)
         ELSE cfg_backoff.retry_delay

\* The handler's decision to retry: a.py 82 / ai_category.py 154.
Retryable(e) ==
    IF prog = "a" THEN IsRateLimitA(e) ELSE ShouldRetryMain(e, retry_count)

FailureKind(e) == IF e.hasRateLimit THEN "failed_retries" ELSE "failed_terminal"

\* The exceptions a call can raise: without a credential the API answers 401
\* to every request, which is neither a "429" nor a "rate limit".
Raisable(e) == has_api_key \/ e = OtherError

\* How a failed call is recorded in `results`.
ResultOf(e) == IF e.hasRateLimit THEN "rate_limit" ELSE "error"

\* client.chat.complete returns category c.
\* a.py 67-77: append to categorized_data, then save_progress().
\* ai_category.py 150-152, 221-234 and 176-184: build the article and the list
\* to dump; json.load failing or the loaded document being a bare list
\* (no .get) raises into the handler at 236-239.
ClassifierOk(c) ==
    /\ pc = "call"
    /\ has_api_key
    /\ results' = Append(results, c)
    /\ IF prog = "a"
       THEN /\ categorized_data' = Append(categorized_data, Entry(data[idx], c))
            /\ classified' = Append(classified, Entry(data[idx], c))
            /\ pc' = "open"
            /\ UNCHANGED <<pending, outcomes>>
       ELSE /\ classified' =
                Append(classified, Entry(data[idx], ReturnedCategory(c, retry_count)))
            /\ IF CanAppend
               THEN /\ pending' =
                        Appended(<<Entry(data[idx], ReturnedCategory(c, retry_count))>>)
                    /\ pc' = "open"
                    /\ outcomes' = outcomes
               ELSE /\ pc' = "for"
                    /\ outcomes' = Append(outcomes, "failed_save")
                    /\ pending' = pending
            /\ categorized_data' = categorized_data
    /\ UNCHANGED <<prog, status, runs, cfg_max_retries, data, idx, retry_count,
                   file, delays, snap, preWrite, fileAtStart>>
    /\ UNCHANGED <<slept, env>>

\* client.chat.complete raises e and the handler retries.
\* a.py 82-85: retry_count += 1, time.sleep(retry_delay).
\* ai_category.py 154-165: time.sleep(delay); retry_count grows at the
\* recursive call (BackoffDone).
ClassifierRetry(e) ==
    /\ pc = "call"
    /\ Raisable(e)
    /\ Retryable(e)
    /\ results' = Append(results, ResultOf(e))
    /\ delays' = delays + 1
    /\ slept' = Append(slept, BackoffDelay)
    /\ retry_count' = IF prog = "a" THEN retry_count + 1 ELSE retry_count
    /\ pc' = "sleep"
    /\ UNCHANGED <<prog, status, runs, cfg_max_retries, data, idx,
                   categorized_data, pending, file, outcomes, classified, snap,
                   preWrite, fileAtStart>>
    /\ UNCHANGED env

\* Giving up with `return` where the code has break / continue: the first
\* failed entry ends the run.
ClassifierGiveUp_Return(e) ==
    /\ pc = "call"
    /\ Raisable(e)
    /\ ~Retryable(e)
    /\ results' = Append(results, ResultOf(e))
    /\ outcomes' = Append(outcomes, FailureKind(e))
    /\ pc' = "done"
    /\ status' = "completed"
    /\ UNCHANGED <<prog, runs, cfg_max_retries, data, idx, retry_count,
                   categorized_data, pending, file, delays, classified, snap,
                   preWrite, fileAtStart>>
    /\ UNCHANGED <<slept, env>>

\* Giving up after storing the entry under a fallback category.
ClassifierGiveUp_Fallback(e) ==
    /\ pc = "call"
    /\ Raisable(e)
    /\ ~Retryable(e)
    /\ results' = Append(results, ResultOf(e))
    /\ outcomes' = Append(outcomes, FailureKind(e))
    /\ categorized_data' = Append(categorized_data, Entry(data[idx], "Unknown"))
    /\ pc' = "for"
    /\ UNCHANGED <<prog, status, runs, cfg_max_retries, data, idx, retry_count,
                   pending, file, delays, classified, snap, preWrite,
                   fileAtStart>>
    /\ UNCHANGED <<slept, env>>

\* client.chat.complete raises e and the handler gives up on the entry.
\* a.py 87-94: break, then the retry_count >= max_retries check.
\* ai_category.py 167-168 and 236-239: raise e, caught, continue.
ClassifierGiveUp(e) ==
    /\ pc = "call"
    /\ Raisable(e)
    /\ ~Retryable(e)
    /\ results' = Append(results, ResultOf(e))
    /\ outcomes' = Append(outcomes, FailureKind(e))
    /\ retry_count' = IF prog = "a" /\ retry_count >= max_retries THEN 0 ELSE retry_count
    /\ pc' = "for"
    /\ UNCHANGED <<prog, status, runs, cfg_max_retries, data, idx,
                   categorized_data, pending, file, delays, classified, snap,
                   preWrite, fileAtStart>>
    /\ UNCHANGED <<slept, env>>

\* The reset of line 93 left out.
BackoffDone_NoReset ==
    /\ pc = "sleep"
    /\ IF prog = "a"
       THEN IF retry_count < max_retries
            THEN /\ pc' = "call"
                 /\ UNCHANGED <<retry_count, outcomes>>
            ELSE /\ pc' = "for"
                 /\ retry_count' = retry_count
                 /\ outcomes' = Append(outcomes, "failed_retries")
       ELSE /\ pc' = "call"
            /\ retry_count' = retry_count + 1
            /\ outcomes' = outcomes
    /\ UNCHANGED <<prog, status, runs, cfg_max_retries, data, idx,
                   categorized_data, pending, file, results, delays, classified,
                   snap, preWrite, fileAtStart>>
    /\ UNCHANGED <<slept, env>>

\* time.sleep returns.
\* a.py 85-86 and 43, 91-94: continue; the while test either calls again or
\* falls through to "Maximum retries reached", which resets retry_count.
\* ai_category.py 165-166: determine_category(..., retry_count + 1).
BackoffDone ==
    /\ pc = "sleep"
    /\ IF prog = "a"
       THEN IF retry_count < max_retries
            THEN /\ pc' = "call"
                 /\ UNCHANGED <<retry_count, outcomes>>
            ELSE /\ pc' = "for"
                 /\ retry_count' = 0
                 /\ outcomes' = Append(outcomes, "failed_retries")
       ELSE /\ pc' = "call"
            /\ retry_count' = retry_count + 1
            /\ outcomes' = outcomes
    /\ UNCHANGED <<prog, status, runs, cfg_max_retries, data, idx,
                   categorized_data, pending, file, results, delays, classified,
                   snap, preWrite, fileAtStart>>
    /\ UNCHANGED <<slept, env>>

\* ---- writing the store --------------------------------------------------
\* The document json.dump writes: a.py 32-33 the bare categorized_data list,
\* ai_category.py 181-187 the object wrapping `articles`.
Document ==
    IF prog = "a"
    THEN [shape |-> "array", articles |-> categorized_data]
    ELSE [shape |-> "object", articles |-> pending]

\* open(output_path, 'w') (a.py 32 / ai_category.py 186) truncates the file,
\* or raises OSError (ok = FALSE) and leaves it alone.  The exception lands
\* in a.py's handler at 81-89 (no "429" in it: break, retry_count as it is)
\* or main's at 236-239 (continue).
OpenForWrite(ok) ==
    /\ pc = "open"
    /\ IF ok
       THEN /\ file' = Truncated
            /\ preWrite' = file
            /\ pc' = "dump"
            /\ outcomes' = outcomes
       ELSE /\ pc' = "for"
            /\ outcomes' = Append(outcomes, "failed_save")
            /\ UNCHANGED <<file, preWrite>>
    /\ UNCHANGED <<prog, status, runs, cfg_max_retries, data, idx, retry_count,
                   categorized_data, pending, results, delays, classified, snap,
                   fileAtStart>>
    /\ UNCHANGED <<slept, env>>

\* json.dump and the close of the with block (a.py 33 / ai_category.py 187)
\* complete, or raise and leave the truncated file behind.  On success a.py
\* goes on to retry_count = 0 and break (79-80).
Dump(ok) ==
    /\ pc = "dump"
    /\ pc' = "for"
    /\ IF ok
       THEN /\ file' = Document
            /\ outcomes' = Append(outcomes, "processed")
            /\ retry_count' = IF prog = "a" THEN 0 ELSE retry_count
       ELSE /\ outcomes' = Append(outcomes, "failed_save")
            /\ UNCHANGED <<file, retry_count>>
    /\ UNCHANGED <<prog, status, runs, cfg_max_retries, data, idx,
                   categorized_data, pending, results, delays, classified, snap,
                   preWrite, fileAtStart>>
    /\ UNCHANGED <<slept, env>>

\* ---- operator interrupt -------------------------------------------------
\* KeyboardInterrupt is not an Exception: in a.py (36, 96-99) it reaches the
\* handler, which calls save_progress(); in ai_category.py neither handler
\* (236, 243) catches it and the process ends where it is.
Interrupt ==
    /\ pc \in {"for", "wait", "call", "sleep", "open", "dump"}
    /\ IF prog = "a"
       THEN /\ pc' = "intr_open"
            /\ status' = status
       ELSE /\ pc' = "done"
            /\ status' = "interrupted"
    /\ UNCHANGED <<prog, runs, cfg_max_retries, data, idx, retry_count,
                   categorized_data, pending, file>>
    /\ UNCHANGED hist
    /\ UNCHANGED env

\* a.py 98 -> 32: open in the interrupt handler; OSError there is uncaught.
InterruptOpen(ok) ==
    /\ pc = "intr_open"
    /\ IF ok
       THEN /\ file' = Truncated
            /\ preWrite' = file
            /\ pc' = "intr_dump"
            /\ status' = status
       ELSE /\ pc' = "done"
            /\ status' = "crashed"
            /\ UNCHANGED <<file, preWrite>>
    /\ UNCHANGED <<prog, runs, cfg_max_retries, data, idx, retry_count,
                   categorized_data, pending, results, delays, outcomes,
                   classified, snap, fileAtStart>>
    /\ UNCHANGED <<slept, env>>

\* a.py 98 -> 33, then sys.exit(0) at 99.
InterruptDump(ok) ==
    /\ pc = "intr_dump"
    /\ pc' = "done"
    /\ IF ok
       THEN /\ file' = Document
            /\ status' = "interrupted"
       ELSE /\ file' = file
            /\ status' = "crashed"
    /\ UNCHANGED <<prog, runs, cfg_max_retries, data, idx, retry_count,
                   categorized_data, pending>>
    /\ UNCHANGED hist
    /\ UNCHANGED env

\* The process is gone: its locals go with it, the file stays.
Exit ==
    /\ pc = "done"
    /\ pc' = "idle"
    /\ data' = <<>>
    /\ idx' = 0
    /\ retry_count' = 0
    /\ categorized_data' = <<>>
    /\ pending' = <<>>
    /\ cfg_max_retries' = 0
    /\ cfg_backoff' = DefaultBackoff
    /\ has_api_key' = TRUE
    /\ overBudget' = FALSE
    /\ results' = <<>>
    /\ delays' = 0
    /\ slept' = <<>>
    /\ outcomes' = <<>>
    /\ classified' = <<>>
    /\ snap' = [file |-> NoFile, mem |-> <<>>]
    /\ preWrite' = NoFile
    /\ fileAtStart' = NoFile
    /\ UNCHANGED <<prog, status, runs, file>>

Next ==
    \/ \E feed \in Feeds, fetched \in BOOLEAN, key \in BOOLEAN :
           StartA(feed, fetched, key)
    \/ \E feed \in Feeds, fetched \in BOOLEAN, limit \in 0..MaxCand,
          retries \in 1..MaxCfgRetries, key \in BOOLEAN :
           StartMain(feed, fetched, limit, retries, DefaultBackoff, key)
    \/ ForNext
    \/ RequestDelay
    \/ \E c \in Categories : ClassifierOk(c)
    \/ \E e \in Errors : ClassifierRetry(e)
    \/ \E e \in Errors : ClassifierGiveUp(e)
    \/ BackoffDone
    \/ \E ok \in BOOLEAN : OpenForWrite(ok)
    \/ \E ok \in BOOLEAN : Dump(ok)
    \/ Interrupt
    \/ \E ok \in BOOLEAN : InterruptOpen(ok)
    \/ \E ok \in BOOLEAN : InterruptDump(ok)
    \/ Exit

Spec == Init /\ [][Next]_vars

\* One run of either script on a fresh store: the steps of Next, with a
\* script started only when none has run before.
NextRun ==
    \/ \E feed \in Feeds, fetched \in BOOLEAN, key \in BOOLEAN :
           runs = 0 /\ StartA(feed, fetched, key)
    \/ \E feed \in Feeds, fetched \in BOOLEAN, limit \in 0..MaxCand,
          retries \in 1..MaxCfgRetries, key \in BOOLEAN :
           runs = 0 /\ StartMain(feed, fetched, limit, retries, DefaultBackoff, key)
    \/ ForNext
    \/ RequestDelay
    \/ \E c \in Categories : ClassifierOk(c)
    \/ \E e \in Errors : ClassifierRetry(e)
    \/ \E e \in Errors : ClassifierGiveUp(e)
    \/ BackoffDone
    \/ \E ok \in BOOLEAN : OpenForWrite(ok)
    \/ \E ok \in BOOLEAN : Dump(ok)
    \/ Interrupt
    \/ \E ok \in BOOLEAN : InterruptOpen(ok)
    \/ \E ok \in BOOLEAN : InterruptDump(ok)
    \/ Exit

SpecRun == Init /\ [][NextRun]_vars

\* One run with the credential set, over every backoff configuration; the
\* feed repeats one title and the classifier knows one category, neither of
\* which the delay depends on.
NextBackoff ==
    \/ \E n \in 0..MaxCand, fetched \in BOOLEAN :
           runs = 0 /\ StartA([i \in 1..n |-> "A"], fetched, TRUE)
    \/ \E n \in 0..MaxCand, fetched \in BOOLEAN, retries \in 1..MaxCfgRetries,
          backoff \in BackoffCfgs :
           runs = 0 /\ StartMain([i \in 1..n |-> "A"], fetched, MaxCand, retries,
                                 backoff, TRUE)
    \/ ForNext
    \/ RequestDelay
    \/ ClassifierOk("Technology")
    \/ \E e \in Errors : ClassifierRetry(e)
    \/ \E e \in Errors : ClassifierGiveUp(e)
    \/ BackoffDone
    \/ \E ok \in BOOLEAN : OpenForWrite(ok)
    \/ \E ok \in BOOLEAN : Dump(ok)
    \/ Interrupt
    \/ \E ok \in BOOLEAN : InterruptOpen(ok)
    \/ \E ok \in BOOLEAN : InterruptDump(ok)
    \/ Exit

SpecBackoff == Init /\ [][NextBackoff]_vars

\* The wall clock passes the total time budget while a run is in progress.
\* Neither loop reads the clock (a.py 42-94, ai_category.py 207-241).
BudgetExpires ==
    /\ pc \notin {"idle", "done"}
    /\ ~overBudget
    /\ overBudget' = TRUE
    /\ UNCHANGED <<prog, pc, status, runs, cfg_max_retries, cfg_backoff,
                   has_api_key, data, idx, retry_count, categorized_data,
                   pending, file>>
    /\ UNCHANGED hist

\* One run, with the clock.
NextBudget ==
    \/ \E feed \in Feeds, fetched \in BOOLEAN, key \in BOOLEAN :
           runs = 0 /\ StartA(feed, fetched, key)
    \/ \E feed \in Feeds, fetched \in BOOLEAN, limit \in 0..MaxCand,
          retries \in 1..MaxCfgRetries, key \in BOOLEAN :
           runs = 0 /\ StartMain(feed, fetched, limit, retries, DefaultBackoff, key)
    \/ ForNext
    \/ RequestDelay
    \/ \E c \in Categories : ClassifierOk(c)
    \/ \E e \in Errors : ClassifierRetry(e)
    \/ \E e \in Errors : ClassifierGiveUp(e)
    \/ BackoffDone
    \/ \E ok \in BOOLEAN : OpenForWrite(ok)
    \/ \E ok \in BOOLEAN : Dump(ok)
    \/ Interrupt
    \/ \E ok \in BOOLEAN : InterruptOpen(ok)
    \/ \E ok \in BOOLEAN : InterruptDump(ok)
    \/ Exit
    \/ BudgetExpires

SpecBudget == Init /\ [][NextBudget]_vars

\* ---- observations used by the properties -------------------------------
NoRepeatedTitle(s) ==
    \A i, j \in 1..Len(s) : s[i].original_title = s[j].original_title => i = j

Distinct(s) == \A i, j \in 1..Len(s) : s[i] = s[j] => i = j

Readable(f) == f.shape \in {"array", "object"}

\* The script is about to make the first classifier call for data[idx].
StartsEntry == pc = "call" /\ results = <<>>

\* C1: every dedup key (original_title) appears exactly once in the persisted
\* collection: a run over a candidate list without repeated titles, started
\* on a store without repeated titles, never leaves a title twice in the file.
C1_KeysUnique ==
    (pc # "idle" /\ Distinct(data) /\ NoRepeatedTitle(fileAtStart.articles))
        => NoRepeatedTitle(file.articles)

\* C2: a record persisted by an earlier run is skipped: no classifier call is
\* made for a candidate whose title was in the store when the run began.
C2_NoCallForPersisted ==
    pc = "call" => data[idx] \notin TitlesOf(fileAtStart.articles)

TypeOK ==
    /\ prog \in {"none", "a", "main"}
    /\ pc \in {"idle", "for", "wait", "call", "sleep", "open", "dump",
               "intr_open", "intr_dump", "done"}
    /\ idx \in 0..MaxCand
    /\ retry_count \in 0..(max_retries + MaxCfgRetries)
    /\ cfg_backoff \in BackoffCfgs \cup {DefaultBackoff}
    /\ has_api_key \in BOOLEAN
    /\ overBudget \in BOOLEAN
    /\ Len(slept) = delays

Persisted(r) == Readable(file) /\ r \in Range(file.articles)

\* C3: every successful classification is flushed before the driver moves
\* on: when the first call for a later candidate starts, and when the run
\* has completed, the file holds every record classified in the run; however
\* the run ends, at most the last classified record is missing from it.
C3_FlushedBeforeMovingOn ==
    /\ (StartsEntry \/ (pc = "done" /\ status = "completed"))
           => \A i \in 1..Len(classified) : Persisted(classified[i])
    /\ pc = "done"
           => \A i \in 1..(Len(classified) - 1) : Persisted(classified[i])

\* C4: the flush that follows a successful classification keeps what the
\* file held before it, in order, and appends: the previous content is a
\* prefix of the new content.
C4_FlushPreservesPrior ==
    [][(pc = "dump" /\ Readable(file'))
           => IsPrefix(preWrite.articles, file'.articles)]_vars

\* C5: the retry budget is per record: the retry counter is zero whenever
\* the processing of a record begins.
C5_RetryBudgetPerRecord == StartsEntry => retry_count = 0

\* Classifier invocations made for the current entry, the one in flight
\* included.
Invocations == Len(results) + (IF pc = "call" THEN 1 ELSE 0)

\* C6 as stated: the invocations for one record never exceed max_attempts
\* (max_retries in a.py, optimization.max_retries in ai_category.py).
C6_AttemptsWithinMaxRetries ==
    prog # "none" =>
        Invocations <= (IF prog = "a" THEN max_retries ELSE cfg_max_retries)

\* C6 amended: a.py makes at most max_retries invocations for one record,
\* ai_category.py at most max_retries + 1 (the first call and max_retries
\* retries), and none after that.
C6_AttemptsBounded ==
    prog # "none" =>
        Invocations <= (IF prog = "a" THEN max_retries ELSE cfg_max_retries + 1)

C6_Witness ==
    /\ prog = "main"
    /\ pc = "for"
    /\ Len(results) = cfg_max_retries + 1
    /\ outcomes # <<>>
    /\ Last(outcomes) = "failed_retries"

JustProcessed == pc = "for" /\ outcomes # <<>> /\ Last(outcomes) = "processed"

\* C7: when k rate-limit failures are followed by a success on the same
\* record, exactly k backoff delays were taken for it and the category
\* stored for it is the result of call k+1.
C7_DelaysThenSuccess ==
    JustProcessed =>
        /\ delays = Len(results) - 1
        /\ \A i \in 1..(Len(results) - 1) : results[i] = "rate_limit"
        /\ Last(results) \in Categories
        /\ Readable(file)
        /\ Last(file.articles) = Entry(data[idx], Last(results))
        /\ prog = "a" => Last(categorized_data) = Entry(data[idx], Last(results))

C7_Witness == JustProcessed /\ Len(results) = 3 /\ delays = 2

\* C8: a call that fails with anything but the rate-limit signal is the last
\* call for its record, no backoff delay follows it, and the driver has
\* moved past the record, which is recorded as failed.
C8_TerminalNotRetried ==
    "error" \in Range(results) =>
        /\ pc \in {"for", "intr_open", "intr_dump", "done"}
        /\ Last(results) = "error"
        /\ delays = Len(results) - 1
        /\ Len(outcomes) = idx
        /\ Last(outcomes) = "failed_terminal"

C8_Witness == pc = "for" /\ results = <<"rate_limit", "error">>

\* C9: one bad record never aborts the run: the driver is back at the loop
\* head after every candidate, whatever its fate, and a run that completes
\* has given every candidate exactly one terminal state.
C9_EveryCandidateAccounted ==
    /\ pc = "for" => Len(outcomes) = idx
    /\ pc \in {"wait", "call", "sleep", "open", "dump"} => Len(outcomes) = idx - 1
    /\ (pc = "done" /\ status = "completed") => Len(outcomes) = Len(data)

C9_Witness ==
    /\ pc = "done"
    /\ status = "completed"
    /\ Len(outcomes) = 2
    /\ outcomes[1] \in {"failed_terminal", "failed_retries"}
    /\ outcomes[2] = "processed"

JustFailed ==
    /\ pc = "for"
    /\ outcomes # <<>>
    /\ Last(outcomes) \in {"failed_terminal", "failed_retries"}

\* C10: a record that ends Failed, by a terminal error or by exhausting its
\* retries, leaves the in-memory collection and the persisted file as they
\* were when its processing began, and the driver is at the next candidate.
C10_FailedAddsNothing ==
    JustFailed =>
        /\ file = snap.file
        /\ categorized_data = snap.mem
        /\ Len(outcomes) = idx

C10_Witness ==
    /\ JustFailed
    /\ Last(outcomes) = "failed_retries"
    /\ idx = 2
    /\ file.articles # <<>>

\* C11: an operator interrupt is honoured by flushing before terminating:
\* when an interrupted run has terminated, the file holds every record the
\* run classified successfully.
C11_InterruptFlushes ==
    (pc = "done" /\ status = "interrupted")
        => \A i \in 1..Len(classified) : Persisted(classified[i])

\* C12: a write error while flushing is fatal for the run: once a save has
\* failed the driver does not go on to another candidate.
C12_WriteErrorStopsRun ==
    "failed_save" \in Range(outcomes)
        => pc \notin {"wait", "call", "sleep", "open", "dump"}

\* C13 as stated: counting a record's backoff delays k = 1, 2, ..., the k-th is
\* min(base_delay * 2^k, max_delay) in exponential mode and base_delay in
\* fixed mode (a.py has no other mode).
C13_DelayDoublesFromFirst ==
    \A k \in 1..Len(slept) :
        slept[k] =
            IF prog = "a"
            THEN retry_delay
            ELSE IF cfg_backoff.exponential_backoff
                 THEN Min(cfg_backoff.retry_delay * Pow2(k), cfg_backoff.max_backoff)
                 ELSE cfg_backoff.retry_delay

\* C13 amended: the k-th backoff delay of a record (k = 1, 2, ...) is
\* min(base_delay * 2^(k-1), max_delay) in exponential mode, so the first one
\* is base_delay itself; successive delays never decrease and none exceeds
\* max_delay.  In fixed mode every delay is base_delay.
C13_BackoffSchedule ==
    /\ \A k \in 1..Len(slept) :
           slept[k] =
               IF prog = "a"
               THEN retry_delay
               ELSE IF cfg_backoff.exponential_backoff
                    THEN Min(cfg_backoff.retry_delay * Pow2(k - 1),
                             cfg_backoff.max_backoff)
                    ELSE cfg_backoff.retry_delay
    /\ (prog = "main" /\ cfg_backoff.exponential_backoff) =>
           /\ \A k \in 1..Len(slept) : slept[k] <= cfg_backoff.max_backoff
           /\ \A j, k \in 1..Len(slept) : j < k => slept[j] <= slept[k]

\* The second delay of a record is cut down to max_backoff.
C13_Witness ==
    /\ prog = "main"
    /\ cfg_backoff.exponential_backoff
    /\ Len(slept) = 2
    /\ cfg_backoff.retry_delay * 2 > cfg_backoff.max_backoff
    /\ slept[2] = cfg_backoff.max_backoff
    /\ pc = "call"

\* C14: a run started without the credential makes no classifier call and
\* leaves the file as it found it.
C14_NoCredentialNoProcessing ==
    ~has_api_key => (pc # "call" /\ results = <<>> /\ file = fileAtStart)

\* C15: after a record has been classified, the classifier call for the next
\* record does not start straight from the loop head: a wait comes first.
C15_DelayBetweenRecords ==
    [][(pc = "for" /\ JustProcessed) => pc' # "call"]_vars

\* C16: once the total time budget is exceeded, the loop head submits no
\* further candidate: the next step from it is not a classifier call or the
\* wait that precedes one.
C16_StopsWhenOverBudget ==
    [][(overBudget /\ pc = "for") => pc' \notin {"wait", "call"}]_vars

\* C17: when a backoff sleep ends, the script calls the classifier again for
\* the same record.
C17_SleepThenRetry ==
    [][(pc = "sleep" /\ pc' \notin {"sleep", "intr_open", "done"})
           => (pc' = "call" /\ idx' = idx)]_vars

\* C18: in a.py retry_count is below max_retries whenever the for loop is at
\* its head, so the while loop is entered for every entry: an entry the loop
\* has left has had at least one classifier call.
C18_EveryEntryIsTried ==
    (prog = "a" /\ pc = "for") =>
        /\ retry_count < max_retries
        /\ idx >= 1 => results # <<>>

\* The second entry is being called after the first used up its retries.
C18_Witness ==
    /\ prog = "a"
    /\ pc = "call"
    /\ idx = 2
    /\ results = <<>>
    /\ outcomes = <<"failed_retries">>

====
